---- MODULE Spec2Model ----
(***************************************************************************)
(* rumble: the scan run (scanner main: scanImage, the two normalizers, the *)
(* attestation branch and the BigQuery upload) and the test query (the     *)
(* latest-scan selection, the per-row decode and the printed report).      *)
(*                                                                         *)
(* A report file is a sequence of tokens: insignificant whitespace, a byte *)
(* that breaks the JSON syntax, an entry of the repo-digest array, an      *)
(* entry of a match / vulnerability array and, for trivy, the opening of a *)
(* result.  A string that the code splits is a sequence of characters.     *)
(* A Go pointer is a sequence of length 0 (nil) or 1.                      *)
(***************************************************************************)
EXTENDS Integers, Sequences, FiniteSets, TLC

\* Tokens in one report file.
MaxLen == 3
\* Rows of the stored history a query runs on.
MaxRows == 3
\* Scan start times of the stored history (seconds).
MaxTime == 3

VARIABLES
    pc,         \* position of the scan run in main
    flags,      \* the command line (image, scanner, attest, bigquery) and the format
    ext,        \* what the external collaborators of scanImage did
    file,       \* the bytes of the report file (tokens)
    summary,    \* *types.ImageScanSummary: <<>> is nil
    vulns,      \* the list ExtractVulns returned
    failure,    \* how the run died: kind (error / panic) and place
    scanTable,  \* GcloudTable: the rows stored
    vulnTable,  \* GcloudTableVulns: the rows stored, in insertion order
    qpc,        \* position of the test query in main
    rows,       \* the rows the query returned, in iterator order
    pos,        \* how many of them it.Next has handed out
    imageScans, \* the decoded scans collected by the fetch loop
    report,     \* the entries printed
    qfail       \* how the query died

vars == <<pc, flags, ext, file, summary, vulns, failure, scanTable, vulnTable,
          qpc, rows, pos, imageScans, report, qfail>>
scanVars == <<pc, flags, ext, file, summary, vulns, failure>>
queryVars == <<qpc, rows, pos, imageScans, report, qfail>>

-----------------------------------------------------------------------------
(* Inputs *)

Images == {"X", "Y"}
Scanners == {"grype", "trivy", "clair"}

\* Repo digests as the scanners report them: repository, "@", digest.
DigestEntries == { <<"r", "@", "a">>, <<"q", "@", "b">> }

GrypeSeverities ==
    {"Low", "Medium", "High", "Critical", "Negligible", "Unknown",
     "Catastrophic", "low"}
TrivySeverities ==
    {"LOW", "MEDIUM", "HIGH", "CRITICAL", "UNKNOWN", "Low"}

\* One match entry of a report; a fix exists for some severities only.
FixFor(sev) == IF sev \in {"High", "Critical", "Unknown", "HIGH", "CRITICAL"} THEN "1.1" ELSE ""
MatchOf(sev) ==
    [cve |-> "CVE-2023-1", dataSource |-> "https://nvd", severity |-> sev,
     name |-> "openssl", version |-> "1.0", fix |-> FixFor(sev), type |-> "apk"]
NoMatch == MatchOf("")

\* k: the kind; d: a repo digest; m: a match; new: for a trivy vulnerability
\* entry, whether it is the first of a result of its own.
Tok(k, d, m, new) == [k |-> k, d |-> d, m |-> m, new |-> new]
Ws == Tok("ws", <<>>, NoMatch, FALSE)
Bad == Tok("bad", <<>>, NoMatch, FALSE)
ResultTok == Tok("result", <<>>, NoMatch, TRUE)
DigestTok(d) == Tok("digest", d, NoMatch, FALSE)
MatchTok(sev) == Tok("match", <<>>, MatchOf(sev), FALSE)
VulnTok(sev, new) == Tok("match", <<>>, MatchOf(sev), new)

GrypeTokens ==
    {Ws, Bad} \cup {DigestTok(d) : d \in DigestEntries}
              \cup {MatchTok(s) : s \in GrypeSeverities}
TrivyTokens ==
    {Bad, ResultTok} \cup {DigestTok(d) : d \in DigestEntries}
                     \cup {VulnTok(s, n) : s \in TrivySeverities, n \in BOOLEAN}

SeqsUpTo(S, n) == UNION {[1..k -> S] : k \in 0..n}
GrypeFiles == SeqsUpTo(GrypeTokens, MaxLen)
TrivyFiles == SeqsUpTo(TrivyTokens, MaxLen)

-----------------------------------------------------------------------------
(* encoding/json, strings *)

RECURSIVE Split(_)
\* strings.Split(s, "@")
Split(s) ==
    IF s = <<>> THEN << <<>> >>
    ELSE LET rest == Split(Tail(s)) IN
         IF Head(s) = "@" THEN << <<>> >> \o rest
         ELSE << <<Head(s)>> \o Head(rest) >> \o Tail(rest)

HasBad(b) == \E i \in 1..Len(b) : b[i].k = "bad"
OfKind(b, k) == SelectSeq(b, LAMBDA t : t.k = k)
Field(s, f) == [i \in 1..Len(s) |-> s[i][f]]

RECURSIVE TrivyResults(_)
\* The Results array: a result token opens an empty result, a vulnerability
\* entry marked new opens a result holding it, any other vulnerability entry
\* joins the Vulnerabilities of the result last opened.
TrivyResults(b) ==
    IF b = <<>> THEN <<>>
    ELSE LET t == b[Len(b)]
             init == TrivyResults(SubSeq(b, 1, Len(b) - 1)) IN
         IF t.k = "result" THEN Append(init, <<>>)
         ELSE IF t.k = "match" /\ t.new THEN Append(init, <<t.m>>)
         ELSE IF t.k = "match" /\ init # <<>>
              THEN [init EXCEPT ![Len(init)] = Append(@, t.m)]
              ELSE init

\* A vulnerability entry outside any result does not decode.
Misplaced(b) ==
    \E i \in 1..Len(b) :
        /\ b[i].k = "match" /\ ~b[i].new
        /\ \A j \in 1..(i - 1) : ~b[j].new

\* json.Unmarshal(b, &output) with output a types.GrypeScanOutput
UnmarshalGrype(b) ==
    [ok |-> ~HasBad(b),
     RepoDigests |-> Field(OfKind(b, "digest"), "d"),
     Matches |-> Field(OfKind(b, "match"), "m")]

\* json.Unmarshal(b, &output) with output a types.TrivyScanOutput
UnmarshalTrivy(b) ==
    [ok |-> ~HasBad(b) /\ ~Misplaced(b),
     RepoDigests |-> Field(OfKind(b, "digest"), "d"),
     Results |-> TrivyResults(b)]

\* Compact that copies the bytes as they are.
CompactKeepsWs(b) == [ok |-> ~HasBad(b), out |-> b]

\* json.Compact(buff, b)
Compact(b) ==
    [ok |-> ~HasBad(b), out |-> SelectSeq(b, LAMBDA t : t.k # "ws")]

-----------------------------------------------------------------------------
(* The normalizers *)

Count(entries, sev) == Cardinality({i \in 1..Len(entries) : entries[i].severity = sev})

\* summary.Digest = strings.Split(RepoDigests[0], "@")[1]: either index may be
\* out of range, and then the goroutine panics.
DigestOf(repoDigests) ==
    IF repoDigests = <<>> THEN [panic |-> TRUE, digest |-> <<>>]
    ELSE LET parts == Split(repoDigests[1]) IN
         IF Len(parts) < 2 THEN [panic |-> TRUE, digest |-> <<>>]
         ELSE [panic |-> FALSE, digest |-> parts[2]]

\* The grype counts with the total taken as the sum of the buckets.
GrypeCountsSumTotal(matches) ==
    LET n(sev) == Count(matches, sev) IN
    [Tot |-> n("Low") + n("Medium") + n("High") + n("Critical")
             + n("Negligible") + n("Unknown"),
     Low |-> n("Low"), Med |-> n("Medium"), High |-> n("High"),
     Crit |-> n("Critical"), Negligible |-> n("Negligible"),
     Unknown |-> n("Unknown")]

\* The counts of grypeOutputToSummary: len(output.Matches) and the switch.
GrypeCounts(matches) ==
    [Tot |-> Len(matches),
     Low |-> Count(matches, "Low"),
     Med |-> Count(matches, "Medium"),
     High |-> Count(matches, "High"),
     Crit |-> Count(matches, "Critical"),
     Negligible |-> Count(matches, "Negligible"),
     Unknown |-> Count(matches, "Unknown")]

RECURSIVE Flatten(_)
Flatten(ss) == IF ss = <<>> THEN <<>> ELSE Head(ss) \o Flatten(Tail(ss))

\* The trivy counts with the total reset at each result.
TrivyCountsLastResult(results) ==
    LET all == Flatten(results) IN
    [Tot |-> IF results = <<>> THEN 0 ELSE Len(results[Len(results)]),
     Low |-> Count(all, "LOW"), Med |-> Count(all, "MEDIUM"),
     High |-> Count(all, "HIGH"), Crit |-> Count(all, "CRITICAL"),
     Negligible |-> 0, Unknown |-> Count(all, "UNKNOWN")]

\* The counts of trivyOutputToSummary: the two nested loops and the switch.
TrivyCounts(results) ==
    LET all == Flatten(results) IN
    [Tot |-> Len(all),
     Low |-> Count(all, "LOW"),
     Med |-> Count(all, "MEDIUM"),
     High |-> Count(all, "HIGH"),
     Crit |-> Count(all, "CRITICAL"),
     Negligible |-> 0,
     Unknown |-> Count(all, "UNKNOWN")]

Summary(image, scanner, scanTime, digest, c) ==
    [Image |-> image, Scanner |-> scanner, Time |-> scanTime, Created |-> "",
     Success |-> TRUE, Digest |-> digest,
     Tot |-> c.Tot, Low |-> c.Low, Med |-> c.Med, High |-> c.High,
     Crit |-> c.Crit, Negligible |-> c.Negligible, Unknown |-> c.Unknown,
     RawGrypeJSON |-> <<>>]

grypeOutputToSummary(image, scanTime, output) ==
    LET d == DigestOf(output.RepoDigests) IN
    IF d.panic THEN [panic |-> TRUE, summary |-> <<>>]
    ELSE [panic |-> FALSE,
          summary |-> <<Summary(image, "grype", scanTime, d.digest,
                                GrypeCounts(output.Matches))>>]

trivyOutputToSummary(image, scanTime, output) ==
    LET d == DigestOf(output.RepoDigests) IN
    IF d.panic THEN [panic |-> TRUE, summary |-> <<>>]
    ELSE [panic |-> FALSE,
          summary |-> <<Summary(image, "trivy", scanTime, d.digest,
                                TrivyCounts(output.Results))>>]

-----------------------------------------------------------------------------
(* scanImage *)

NoFailure == [kind |-> "none", at |-> ""]
Returned(at) == [kind |-> "error", at |-> at]
Panicked(at) == [kind |-> "panic", at |-> at]

Ok(s) == [failure |-> NoFailure, summary |-> s]
Fail(f) == [failure |-> f, summary |-> <<>>]

\* What the collaborators of a scan can do: the temporary file, the scanner
\* process, the read of the report, and trivy's version query.
ExtOf(scanner) ==
    CASE scanner = "grype" -> {"ok", "createTemp", "scanCmd", "readFile"}
      [] scanner = "trivy" ->
            {"ok", "createTemp", "scanCmd", "readFile", "versionCmd", "versionJSON"}
      [] OTHER -> {"ok"}

\* scanImageGrype going on after a report that did not decode.
scanImageGrypeIgnoresErr(image, format, e, b, t) ==
    IF e # "ok" THEN Fail(Returned(e))
    ELSE IF format = "json"
    THEN LET n == grypeOutputToSummary(image, t, UnmarshalGrype(b)) IN
         IF n.panic THEN Fail(Panicked("missing digest"))
         ELSE Ok(<<[n.summary[1] EXCEPT !.RawGrypeJSON = Compact(b).out]>>)
    ELSE Ok(<<>>)

scanImageGrype(image, format, e, b, t) ==
    IF e # "ok" THEN Fail(Returned(e))
    ELSE IF format = "json"
    THEN LET output == UnmarshalGrype(b) IN
         IF ~output.ok THEN Fail(Returned("malformed report"))
         ELSE LET n == grypeOutputToSummary(image, t, output)
                  c == Compact(b) IN
              IF n.panic THEN Fail(Panicked("missing digest"))
              ELSE IF ~c.ok THEN Fail(Returned("compact"))
              ELSE Ok(<<[n.summary[1] EXCEPT !.RawGrypeJSON = c.out]>>)
    ELSE Ok(<<>>)

scanImageTrivy(image, format, e, b, t) ==
    IF e # "ok" THEN Fail(Returned(e))
    ELSE IF format = "json"
    THEN LET output == UnmarshalTrivy(b) IN
         IF ~output.ok THEN Fail(Returned("malformed report"))
         ELSE LET n == trivyOutputToSummary(image, t, output) IN
              IF n.panic THEN Fail(Panicked("missing digest"))
              ELSE Ok(n.summary)
    ELSE Ok(<<>>)

scanImage(image, scanner, format, e, b, t) ==
    CASE scanner = "trivy" -> scanImageTrivy(image, format, e, b, t)
      [] scanner = "grype" -> scanImageGrype(image, format, e, b, t)
      [] OTHER -> Fail(Returned("invalid scanner"))

\* The format left at its default.
FormatAlwaysJSON(attest) == "json"

\* If the user is attesting, always use sarif format.
Format(attest) == IF attest THEN "sarif" ELSE "json"

\* The report files a scan can leave: the scanner's own dialect; the bytes
\* are modelled only where the code decodes them (format json, file read).
FilesOf(scanner, format, e) ==
    IF format = "json" /\ e = "ok"
    THEN CASE scanner = "grype" -> GrypeFiles
           [] scanner = "trivy" -> TrivyFiles
           [] OTHER -> {<<>>}
    ELSE {<<>>}

-----------------------------------------------------------------------------
(* pkg/types: the methods of ImageScanSummary main calls *)

\* summary.ExtractVulns(): the vulnerability records of the raw report the
\* summary carries; none when it carries no raw report.
ExtractVulns(s) ==
    IF s.RawGrypeJSON = <<>> THEN [ok |-> TRUE, vulns |-> <<>>]
    ELSE LET output == UnmarshalGrype(s.RawGrypeJSON) IN
         [ok |-> output.ok,
          vulns |-> [i \in 1..Len(output.Matches) |->
                        LET m == output.Matches[i] IN
                        [Vulnerability |-> m.cve, DataSource |-> m.dataSource,
                         Severity |-> m.severity, Name |-> m.name,
                         Installed |-> m.version, FixedIn |-> m.fix,
                         Type |-> m.type]]]

\* tableInserter.Put(ctx, summary): the struct saved as one flat row, each
\* field under its column name.
EncodeRow(s) ==
    [image |-> s.Image, digest |-> s.Digest, scanner |-> s.Scanner,
     time |-> s.Time, created |-> s.Created, success |-> s.Success,
     tot_cve_count |-> s.Tot, low_cve_count |-> s.Low,
     med_cve_count |-> s.Med, high_cve_count |-> s.High,
     crit_cve_count |-> s.Crit, negligible_cve_count |-> s.Negligible,
     unknown_cve_count |-> s.Unknown, raw_grype_json |-> s.RawGrypeJSON]

-----------------------------------------------------------------------------
(* The scan run: main *)

Epoch == "1970-01-01T00:00:00Z"
BuildTime == "2023-05-01T10:00:00Z"

Init ==
    /\ pc = "start"
    /\ flags = [image |-> "X", scanner |-> "grype", attest |-> FALSE,
                bigquery |-> TRUE, format |-> "json"]
    /\ ext = "ok"
    /\ file = <<>>
    /\ summary = <<>>
    /\ vulns = <<>>
    /\ failure = NoFailure
    /\ scanTable = {}
    /\ vulnTable = <<>>
    /\ qpc = "off"
    /\ rows = <<>>
    /\ pos = 0
    /\ imageScans = <<>>
    /\ report = <<>>
    /\ qfail = "none"

\* flag.Parse, the choice of the format, scanImage and the panic on its error.
\* time.Now() is the latest of the modelled times.
ScanImage ==
    /\ pc = "start"
    /\ \E image \in Images, scanner \in Scanners, attest \in BOOLEAN,
          bigquery \in BOOLEAN, t \in {MaxTime} :
       \E e \in ExtOf(scanner) :
       \E b \in FilesOf(scanner, Format(attest), e) :
          LET r == scanImage(image, scanner, Format(attest), e, b, t) IN
          /\ flags' = [image |-> image, scanner |-> scanner,
                       attest |-> attest, bigquery |-> bigquery,
                       format |-> Format(attest)]
          /\ ext' = e
          /\ file' = b
          /\ summary' = r.summary
          /\ failure' = r.failure
          /\ pc' = IF r.failure.kind = "none" THEN "scanned" ELSE "failed"
    /\ UNCHANGED <<vulns, scanTable, vulnTable, queryVars>>

\* The attest branch: attestImage, which reads the file and never the summary.
Attest ==
    /\ pc = "scanned"
    /\ flags.attest
    /\ \E o \in {"ok", "attest"} :
          /\ failure' = IF o = "ok" THEN NoFailure ELSE Panicked(o)
          /\ pc' = IF o = "ok" THEN "done" ELSE "failed"
    /\ UNCHANGED <<flags, ext, file, summary, vulns, scanTable, vulnTable, queryVars>>

\* The else branch up to the upload: the image build time, summary.Created,
\* the printed summary and ExtractVulns.
Extract ==
    /\ pc = "scanned"
    /\ ~flags.attest
    /\ \E o \in {"buildTime", "nil", "time"} :
          IF o = "buildTime"
          THEN /\ failure' = Panicked(o)
               /\ pc' = "failed"
               /\ UNCHANGED <<summary, vulns>>
          ELSE IF summary = <<>>
          THEN /\ failure' = Panicked("nil dereference")
               /\ pc' = "failed"
               /\ UNCHANGED <<summary, vulns>>
          ELSE LET s == [summary[1] EXCEPT
                            !.Created = IF o = "time" THEN BuildTime ELSE Epoch]
                   x == ExtractVulns(s) IN
               /\ summary' = <<s>>
               /\ IF x.ok
                  THEN /\ vulns' = x.vulns
                       /\ failure' = NoFailure
                       /\ pc' = IF flags.bigquery THEN "upload" ELSE "done"
                  ELSE /\ vulns' = <<>>
                       /\ failure' = Panicked("extract")
                       /\ pc' = "failed"
    /\ UNCHANGED <<flags, ext, file, scanTable, vulnTable, queryVars>>

\* Upload to BigQuery: the client and the row of the scan table.
PutSummary ==
    /\ pc = "upload"
    /\ \E o \in {"ok", "client", "put"} :
          IF o = "ok"
          THEN /\ scanTable' = scanTable \cup {EncodeRow(summary[1])}
               /\ failure' = NoFailure
               /\ pc' = IF Len(vulns) > 0 THEN "uploadVulns" ELSE "done"
          ELSE /\ scanTable' = scanTable
               /\ failure' = Panicked(o)
               /\ pc' = "failed"
    /\ UNCHANGED <<flags, ext, file, summary, vulns, vulnTable, queryVars>>

\* Add a row for each vuln found.
PutVulns ==
    /\ pc = "uploadVulns"
    /\ \E o \in {"ok", "putVulns"} :
          IF o = "ok"
          THEN /\ vulnTable' = vulnTable \o vulns
               /\ failure' = NoFailure
               /\ pc' = "done"
          ELSE /\ vulnTable' = vulnTable
               /\ failure' = Panicked(o)
               /\ pc' = "failed"
    /\ UNCHANGED <<flags, ext, file, summary, vulns, scanTable, queryVars>>

Next == ScanImage \/ Attest \/ Extract \/ PutSummary \/ PutVulns

Spec == Init /\ [][Next]_vars

-----------------------------------------------------------------------------
(* The test query: cmd/testquery *)

ImageOrder == <<"X", "Y">>

\* Rows an earlier scan run stored, as the scan path builds them from a
\* sample report.
GrypeSamples ==
    { <<DigestTok(<<"r", "@", "a">>), Ws, MatchTok("Unknown")>>,
      <<DigestTok(<<"r", "@", "a">>), MatchTok("High"), MatchTok("Catastrophic")>> }
TrivySamples ==
    { <<DigestTok(<<"r", "@", "a">>), VulnTok("HIGH", TRUE)>> }

StoredBy(image, scanner, t) ==
    { EncodeRow([r.summary[1] EXCEPT !.Created = Epoch]) :
        r \in { scanImage(image, scanner, "json", "ok", b, t) :
                  b \in IF scanner = "grype" THEN GrypeSamples ELSE TrivySamples } }

\* Rows of other origin: stored before the raw report was captured, or with
\* a raw report that no longer parses.
Foreign(image, t) ==
    LET zero == EncodeRow([Summary(image, "grype", t, <<"a">>, GrypeCounts(<<>>))
                              EXCEPT !.Created = Epoch]) IN
    { zero,
      [zero EXCEPT !.tot_cve_count = 1, !.low_cve_count = 1,
                   !.raw_grype_json = <<DigestTok(<<"r", "@", "a">>), Bad>>] }

StorableRows ==
    UNION { StoredBy(i, s, t) : i \in Images, s \in {"grype", "trivy"}, t \in 1..MaxTime }
    \cup UNION { Foreign(i, t) : i \in Images, t \in 1..MaxTime }

InitQuery ==
    /\ pc = "off"
    /\ flags = [image |-> "X", scanner |-> "grype", attest |-> FALSE,
                bigquery |-> TRUE, format |-> "json"]
    /\ ext = "ok"
    /\ file = <<>>
    /\ summary = <<>>
    /\ vulns = <<>>
    /\ failure = NoFailure
    /\ scanTable = {}
    /\ vulnTable = <<>>
    /\ qpc = "idle"
    /\ rows = <<>>
    /\ pos = 0
    /\ imageScans = <<>>
    /\ report = <<>>
    /\ qfail = "none"

\* The history: a scan run appends its row to the scan table.
AddRow ==
    /\ qpc = "idle"
    /\ Cardinality(scanTable) < MaxRows
    /\ \E r \in StorableRows : scanTable' = scanTable \cup {r}
    /\ UNCHANGED <<scanVars, vulnTable, queryVars>>

\* WHERE scanner = "grype"
Filtered(table) == {r \in table : r.scanner = "grype"}

\* The partition ordered by time ASC.
CanBeFirstAsc(r, T) == \A o \in T : o.image = r.image => o.time >= r.time

\* ROW_NUMBER() OVER (PARTITION BY image ORDER BY time DESC) rn ... rn = 1:
\* r can be numbered 1 in its partition when no row of it is later.
CanBeFirst(r, T) == \A o \in T : o.image = r.image => o.time <= r.time

\* The results the query can return: one row numbered 1 for each image of
\* the filtered rows, ORDER BY image.
QueryResults(table) ==
    LET T == Filtered(table)
        imgs == SelectSeq(ImageOrder, LAMBDA i : \E r \in T : r.image = i)
    IN { [k \in 1..Len(imgs) |-> pick[imgs[k]]] :
           pick \in { f \in [{imgs[k] : k \in 1..Len(imgs)} -> T] :
                        \A i \in DOMAIN f : f[i].image = i /\ CanBeFirst(f[i], T) } }

\* it.Next(&is): the columns of the row loaded into an ImageCveScan.
LoadRow(r) ==
    [GithubIssueId |-> 0, Image |-> r.image, Digest |-> r.digest, Time |-> r.time,
     Created |-> r.created, Low |-> r.low_cve_count, Med |-> r.med_cve_count,
     High |-> r.high_cve_count, Crit |-> r.crit_cve_count,
     Negligible |-> r.negligible_cve_count, MatchesString |-> r.raw_grype_json,
     Matches |-> <<>>]

\* json.Unmarshal([]byte(is.MatchesString), &is): the matches array decoded
\* into []*Match, whose fields are Vuln (id, dataSource, severity), Nack and
\* Artifact (name, version, type).
UnmarshalScan(is) ==
    LET b == is.MatchesString
        ms == Field(OfKind(b, "match"), "m") IN
    [ok |-> ~HasBad(b),
     is |-> [is EXCEPT !.Matches =
                [i \in 1..Len(ms) |->
                    [Vuln |-> [CveId |-> ms[i].cve, Datasource |-> ms[i].dataSource,
                               Severity |-> ms[i].severity],
                     Nack |-> <<>>,
                     Artifact |-> [Name |-> ms[i].name, Version |-> ms[i].version,
                                   Type |-> ms[i].type]]]]]

\* The total without the high count.
ReportTotalNoHigh(scan) == scan.Crit + scan.Med + scan.Low + scan.Negligible

\* total := scan.Crit + scan.High + scan.Med + scan.Low + scan.Negligible
ReportTotal(scan) == scan.Crit + scan.High + scan.Med + scan.Low + scan.Negligible

Printed(scan) ==
    [image |-> scan.Image, crit |-> scan.Crit, high |-> scan.High,
     med |-> scan.Med, low |-> scan.Low, neg |-> scan.Negligible]

\* client.Query and q.Read
RunQuery ==
    /\ qpc = "idle"
    /\ \E o \in {"ok", "read"} :
          IF o = "ok"
          THEN /\ \E res \in QueryResults(scanTable) : rows' = res
               /\ qpc' = "fetch"
               /\ qfail' = "none"
          ELSE /\ rows' = <<>>
               /\ qpc' = "failed"
               /\ qfail' = o
    /\ UNCHANGED <<scanVars, scanTable, vulnTable, pos, imageScans, report>>

\* One turn of the fetch loop.
FetchRow ==
    /\ qpc = "fetch"
    /\ \E o \in {"ok", "next"} :
          IF o = "next"
          THEN \* it.Next failed: is stays empty, log.Fatal(err)
               /\ qpc' = "failed"
               /\ qfail' = o
               /\ UNCHANGED <<pos, imageScans>>
          ELSE IF pos = Len(rows)
          THEN \* iterator.Done
               /\ qpc' = "print"
               /\ UNCHANGED <<pos, imageScans, qfail>>
          ELSE LET is == LoadRow(rows[pos + 1])
                   u == IF is.MatchesString # <<>> THEN UnmarshalScan(is)
                        ELSE [ok |-> TRUE, is |-> is] IN
               /\ pos' = pos + 1
               /\ IF u.ok
                  THEN /\ imageScans' = Append(imageScans, u.is)
                       /\ UNCHANGED <<qpc, qfail>>
                  ELSE \* log.Fatal("Failed to unmarshal CVE match: ", err)
                       /\ qpc' = "failed"
                       /\ qfail' = "decode"
                       /\ UNCHANGED imageScans
    /\ UNCHANGED <<scanVars, scanTable, vulnTable, rows, report>>

\* The print loop.
PrintReport ==
    /\ qpc = "print"
    /\ report' = LET shown == SelectSeq(imageScans, LAMBDA scan : ReportTotal(scan) > 0)
                 IN [k \in 1..Len(shown) |-> Printed(shown[k])]
    /\ qpc' = "done"
    /\ UNCHANGED <<scanVars, scanTable, vulnTable, rows, pos, imageScans, qfail>>

NextQuery == AddRow \/ RunQuery \/ FetchRow \/ PrintReport

SpecQuery == InitQuery /\ [][NextQuery]_vars

-----------------------------------------------------------------------------
(* Properties of the scan run (Spec) *)

GrypeRecognized == {"Low", "Medium", "High", "Critical", "Negligible", "Unknown"}
TrivyRecognized == {"LOW", "MEDIUM", "HIGH", "CRITICAL", "UNKNOWN"}

BucketSum(s) == s.Low + s.Med + s.High + s.Crit + s.Negligible + s.Unknown

\* The entries of the report file, read off its tokens.
EntriesAt(b) == {i \in 1..Len(b) : b[i].k = "match"}
DigestsAt(b) == {i \in 1..Len(b) : b[i].k = "digest"}
Unrecognized(b, known) == {i \in EntriesAt(b) : b[i].m.severity \notin known}

\* The scan of this run read a report in the scanner's JSON dialect.
ReadJSON(scanner) ==
    /\ pc # "start"
    /\ flags.scanner = scanner
    /\ ~flags.attest
    /\ ext = "ok"
Decodes(b) ==
    /\ ~HasBad(b)
    /\ flags.scanner = "trivy" => ~Misplaced(b)

\* C1: for a grype report with a non-empty repo-digest list a summary is
\* built, its total is the number of matches, the six buckets sum to at most
\* the total, and the difference is exactly the number of matches whose
\* severity is not one of the six recognized strings: equality if and only if
\* every severity is recognized; an unrecognized one fails nothing.
C1_GrypeBucketsAtMostTotal ==
    (ReadJSON("grype") /\ Decodes(file) /\ DigestsAt(file) # {}) =>
        /\ summary # <<>>
        /\ failure.at \notin {"malformed report", "missing digest"}
        /\ summary[1].Tot = Cardinality(EntriesAt(file))
        /\ BucketSum(summary[1]) <= summary[1].Tot
        /\ summary[1].Tot - BucketSum(summary[1])
              = Cardinality(Unrecognized(file, GrypeRecognized))
        /\ (BucketSum(summary[1]) = summary[1].Tot
              <=> Unrecognized(file, GrypeRecognized) = {})

\* A grype summary of two matches, one of them "Catastrophic".
C1_Witness ==
    /\ ReadJSON("grype") /\ summary # <<>>
    /\ \E i \in EntriesAt(file) : file[i].m.severity = "Catastrophic"
    /\ summary[1].Tot = 2
    /\ BucketSum(summary[1]) = 1

NoWs(b) == \A i \in 1..Len(b) : b[i].k # "ws"
\* raw is b with its insignificant whitespace, and nothing else, taken out.
MinifiedOf(raw, b) == NoWs(raw) /\ raw = SelectSeq(b, LAMBDA t : t.k # "ws")

\* C2 as stated: every summary built from a report, of either scanner,
\* carries the complete minified report, and never an empty raw report.
C2_RawReportOnEverySummary ==
    (pc # "start" /\ summary # <<>>) =>
        /\ MinifiedOf(summary[1].RawGrypeJSON, file)
        /\ summary[1].RawGrypeJSON # <<>>

\* C2, amended: a summary built by a grype scan carries the complete minified
\* report and is never empty; a summary built by a trivy scan carries no raw
\* report at all.
C2_RawReportOnGrypeSummaryOnly ==
    (pc # "start" /\ summary # <<>>) =>
        IF summary[1].Scanner = "grype"
        THEN /\ MinifiedOf(summary[1].RawGrypeJSON, file)
             /\ summary[1].RawGrypeJSON # <<>>
        ELSE summary[1].RawGrypeJSON = <<>>

\* A grype summary whose report file held whitespace and a match.
C2_Witness ==
    /\ ReadJSON("grype") /\ summary # <<>>
    /\ ~NoWs(file)
    /\ EntriesAt(file) # {}
    /\ Len(summary[1].RawGrypeJSON) = 2

\* What follows the "@" of a repo digest.
AfterAt(d) ==
    LET i == CHOOSE i \in 1..Len(d) : d[i] = "@" /\ \A j \in 1..(i - 1) : d[j] # "@"
    IN SubSeq(d, i + 1, Len(d))
FirstDigest(b) ==
    b[CHOOSE i \in DigestsAt(b) : \A j \in DigestsAt(b) : i <= j].d

\* C5 as stated: with a non-empty repo-digest list the digest of the summary
\* is what follows the "@" of the first entry; with an empty list scanImage
\* returns an error for the missing digest to its caller and no summary.
C5_DigestOrReturnedError ==
    ((ReadJSON("grype") \/ ReadJSON("trivy")) /\ Decodes(file)) =>
        IF DigestsAt(file) # {}
        THEN summary # <<>> /\ summary[1].Digest = AfterAt(FirstDigest(file))
        ELSE summary = <<>> /\ pc = "failed" /\ failure = Returned("missing digest")

ScanFails ==
    /\ pc # "start"
    /\ \/ flags.scanner \notin {"grype", "trivy"}
       \/ ext # "ok"
       \/ /\ flags.format = "json"
          /\ ~Decodes(file) \/ DigestsAt(file) = {}

\* C8: a run whose scan, report decoding or normalization fails ends failed
\* with both tables as they were; every row of the scan table is the encoding
\* of the summary the run built in full, with success set, and is stored only
\* once the run has passed ExtractVulns.
C8_NoPartialUpload ==
    /\ ScanFails =>
          pc = "failed" /\ summary = <<>> /\ scanTable = {} /\ vulnTable = <<>>
    /\ pc = "failed" /\ failure.at \in
          {"invalid scanner", "createTemp", "scanCmd", "readFile", "versionCmd",
           "versionJSON", "malformed report", "compact", "missing digest",
           "buildTime", "extract"} =>
          scanTable = {} /\ vulnTable = <<>>
    /\ \A r \in scanTable :
          /\ summary # <<>> /\ r = EncodeRow(summary[1])
          /\ r.success /\ r.created # ""
          /\ ~ScanFails
          /\ pc \in {"uploadVulns", "done", "failed"}

\* A run with the upload enabled whose report did not decode.
C8_Witness ==
    /\ pc = "failed" /\ flags.bigquery /\ flags.format = "json"
    /\ failure = Returned("malformed report")
    /\ DigestsAt(file) # {} /\ EntriesAt(file) # {}

\* C9: for a trivy report with a non-empty repo-digest list the summary has
\* negligible 0, its total is the number of vulnerability entries of all
\* results, the buckets sum to at most the total, and the difference is the
\* number of entries whose severity is not one of the five recognized
\* strings: equality if and only if every severity is recognized.
C9_TrivyBucketsAtMostTotal ==
    (ReadJSON("trivy") /\ Decodes(file) /\ DigestsAt(file) # {}) =>
        /\ summary # <<>>
        /\ summary[1].Negligible = 0
        /\ summary[1].Tot = Cardinality(EntriesAt(file))
        /\ BucketSum(summary[1]) <= summary[1].Tot
        /\ summary[1].Tot - BucketSum(summary[1])
              = Cardinality(Unrecognized(file, TrivyRecognized))
        /\ (BucketSum(summary[1]) = summary[1].Tot
              <=> Unrecognized(file, TrivyRecognized) = {})

\* A trivy summary of two results of one entry each, one of them "Low".
C9_Witness ==
    /\ ReadJSON("trivy") /\ summary # <<>>
    /\ Len(UnmarshalTrivy(file).Results) = 2
    /\ \A k \in 1..2 : Len(UnmarshalTrivy(file).Results[k]) = 1
    /\ \E i \in EntriesAt(file) : file[i].m.severity = "Low"
    /\ summary[1].Tot = 2
    /\ BucketSum(summary[1]) = 1

\* C10: with attest set the scan runs in sarif format, no summary is built or
\* dereferenced and neither table gets a row, whatever bigquery is; rows are
\* stored only with attest unset and bigquery set; vulnerability rows are
\* stored only after the summary row, and only when ExtractVulns returned at
\* least one, all of them.
C10_AttestExcludesUpload ==
    /\ failure.at # "nil dereference"
    /\ (pc # "start" /\ flags.attest) =>
          /\ flags.format = "sarif"
          /\ summary = <<>>
          /\ scanTable = {} /\ vulnTable = <<>>
    /\ (scanTable # {} \/ vulnTable # <<>>) =>
          /\ ~flags.attest /\ flags.bigquery /\ flags.format = "json"
    /\ vulnTable # <<>> =>
          /\ scanTable = {EncodeRow(summary[1])}
          /\ vulns # <<>> /\ vulnTable = vulns
    /\ pc = "uploadVulns" => scanTable # {} /\ vulns # <<>>
    /\ (pc = "done" /\ ~flags.attest /\ flags.bigquery) =>
          /\ scanTable = {EncodeRow(summary[1])}
          /\ vulnTable = vulns

\* An attested run with bigquery set that ended well.
C10_Witness ==
    pc = "done" /\ flags.attest /\ flags.bigquery /\ flags.scanner = "grype"

-----------------------------------------------------------------------------
(* Properties of the test query (SpecQuery) *)

\* The query returned its rows.
Queried == qpc \in {"fetch", "print", "done"} \/ (qpc = "failed" /\ qfail # "read")

GrypeStored == {r \in scanTable : r.scanner = "grype"}
RowsAt(image) == {k \in 1..Len(rows) : rows[k].image = image}
ShownAt(image) == {k \in 1..Len(report) : report[k].image = image}

\* C4: the query returns exactly one row for each image that has a grype row
\* stored and none for any other image; the row is a stored grype row and no
\* stored grype row of its image has a later time.
C4_LatestGrypeRowPerImage ==
    Queried =>
        /\ \A k \in 1..Len(rows) :
              /\ rows[k] \in scanTable
              /\ rows[k].scanner = "grype"
              /\ \A o \in GrypeStored : o.image = rows[k].image => o.time <= rows[k].time
        /\ \A i \in Images :
              Cardinality(RowsAt(i)) = IF \E r \in GrypeStored : r.image = i THEN 1 ELSE 0

\* Two grype rows of one image at different times, with a later trivy row of
\* the same image, and the single row returned for them.
C4_Witness ==
    /\ Queried
    /\ Len(rows) = 1
    /\ \E a, b \in GrypeStored, c \in scanTable :
          /\ a.image = b.image /\ b.image = c.image
          /\ c.scanner = "trivy"
          /\ a.time < b.time /\ b.time < c.time
          /\ rows[1] = b

\* Two stored grype rows of one image with the same time, and the query over
\* them returned.
C4_TieWitness ==
    /\ Queried
    /\ \E a, b \in GrypeStored : a # b /\ a.image = b.image /\ a.time = b.time
                                 /\ rows[1] \in {a, b}

\* What the write path extracts from a raw report, and what the read path
\* decodes from it, as the six fields the lists are compared by. A Match of
\* the read path has no field for the fixed-in version.
WrittenEntry(v) ==
    [cve |-> v.Vulnerability, severity |-> v.Severity, name |-> v.Name,
     installed |-> v.Installed, fixedIn |-> v.FixedIn, type |-> v.Type]
ReadEntry(m) ==
    [cve |-> m.Vuln.CveId, severity |-> m.Vuln.Severity, name |-> m.Artifact.Name,
     installed |-> m.Artifact.Version, fixedIn |-> "", type |-> m.Artifact.Type]

\* C3 as stated: the list a row decodes to on the read path has the entries,
\* in the order, of the list ExtractVulns gave for the same raw report, by
\* CVE ID, severity, package name, installed version, fixed-in version, type.
C3_RoundTripSixFields ==
    \A k \in 1..Len(imageScans) :
        LET is == imageScans[k]
            w == ExtractVulns([RawGrypeJSON |-> is.MatchesString]).vulns IN
        /\ Len(is.Matches) = Len(w)
        /\ \A j \in 1..Len(w) : ReadEntry(is.Matches[j]) = WrittenEntry(w[j])

FiveSum(r) ==
    r.low_cve_count + r.med_cve_count + r.high_cve_count + r.crit_cve_count
    + r.negligible_cve_count
SixSum(r) == FiveSum(r) + r.unknown_cve_count
DecodesRow(r) == ~HasBad(r.raw_grype_json)

\* C6 as stated: when the raw report of one fetched row does not decode, every
\* other row of the batch is still decoded and, with counts that are not all
\* zero, still appears in the report.
C6_DecodeFailureIsolated ==
    (qpc = "done" \/ (qpc = "failed" /\ qfail = "decode")) =>
        \A k \in 1..Len(rows) :
            DecodesRow(rows[k]) =>
                /\ \E n \in 1..Len(imageScans) : imageScans[n].Image = rows[k].image
                /\ FiveSum(rows[k]) > 0 => ShownAt(rows[k].image) # {}

\* C7 as stated: once the report is printed, a returned row is left out of it
\* exactly when its six counts (unknown included) sum to zero.
C7_ExcludedIffSixBucketsZero ==
    qpc = "done" =>
        \A k \in 1..Len(rows) :
            Cardinality(ShownAt(rows[k].image)) = IF SixSum(rows[k]) > 0 THEN 1 ELSE 0

\* C7, amended: nothing is printed before the fetch loop has ended; every
\* printed entry is the image and the critical, high, medium, low and
\* negligible counts of a returned row of which these five sum to more than
\* zero; and once the report is printed a returned row appears once if these
\* five counts sum to more than zero and not at all otherwise, its unknown
\* count playing no part.
C7_ExcludedIffFiveBucketsZero ==
    /\ qpc # "done" => report = <<>>
    /\ \A n \in 1..Len(report) :
          \E k \in 1..Len(rows) :
              /\ FiveSum(rows[k]) > 0
              /\ report[n] = [image |-> rows[k].image, crit |-> rows[k].crit_cve_count,
                              high |-> rows[k].high_cve_count, med |-> rows[k].med_cve_count,
                              low |-> rows[k].low_cve_count,
                              neg |-> rows[k].negligible_cve_count]
    /\ qpc = "done" =>
          \A k \in 1..Len(rows) :
              Cardinality(ShownAt(rows[k].image)) = IF FiveSum(rows[k]) > 0 THEN 1 ELSE 0

\* A printed report of two returned rows: one with a high count, shown, and
\* one whose only count is unknown, left out.
C7_Witness ==
    /\ qpc = "done"
    /\ Len(rows) = 2 /\ Len(report) = 1
    /\ \E k \in 1..2 : rows[k].unknown_cve_count > 0 /\ FiveSum(rows[k]) = 0
                       /\ ShownAt(rows[k].image) = {}
    /\ \E k \in 1..2 : rows[k].high_cve_count > 0 /\ ShownAt(rows[k].image) # {}

====
